---- MODULE Spec2Model ----
(***************************************************************************)
(* Version resolution and deployment run of cdk-deploy/cdk_deploy.py.      *)
(*                                                                         *)
(* A Python str is a sequence of one-character strings, so that split,     *)
(* int, Path.stem and the f-string that builds a file name are computed    *)
(* and not assumed.  A raised exception is a record [exc, msg].            *)
(***************************************************************************)
EXTENDS Integers, Sequences, FiniteSets, TLC

(***************************************************************************)
(* Bounds of the model.                                                    *)
(***************************************************************************)
\* longest list handed to get_latest_version in SpecLatest
MaxVersions == 3
\* most files in one directory of the deployment run
MaxFiles == 2
\* most entries in the Components list of a recipe file
MaxRefs == 2

(***************************************************************************)
(* Strings.                                                                *)
(***************************************************************************)
Digits == <<"0", "1", "2", "3", "4", "5", "6", "7", "8", "9">>

IsDigit(c) == \E d \in 1..Len(Digits) : Digits[d] = c

DigitValue(c) == (CHOOSE d \in 1..Len(Digits) : Digits[d] = c) - 1

\* the sentinels of load_component / resolve_recipe_components and load_recipe
SentinelXXX == <<"x", ".", "x", ".", "x">>
SentinelLatest == <<"l", "a", "t", "e", "s", "t">>

\* the version strings the inputs are drawn from
V_1_2_0 == <<"1", ".", "2", ".", "0">>
V_1_10_0 == <<"1", ".", "1", "0", ".", "0">>
V_1_9_9 == <<"1", ".", "9", ".", "9">>
V_2_0_0 == <<"2", ".", "0", ".", "0">>
V_1_99_0 == <<"1", ".", "9", "9", ".", "0">>
V_1_1_0 == <<"1", ".", "1", ".", "0">>
V_1_01_0 == <<"1", ".", "0", "1", ".", "0">>
V_1_1 == <<"1", ".", "1">>
V_1_0_0_beta == <<"1", ".", "0", ".", "0", "-", "b", "e", "t", "a">>

VersionPool ==
    {V_1_2_0, V_1_10_0, V_1_9_9, V_2_0_0, V_1_99_0, V_1_1_0, V_1_01_0, V_1_1,
     V_1_0_0_beta}

\* an exception raised by the code
Raise(exc, msg) == [ok |-> FALSE, exc |-> exc, msg |-> msg]
\* a value returned by the code
Return(val) == [ok |-> TRUE, val |-> val]

(***************************************************************************)
(* ImageBuilderManager.get_latest_version                                  *)
(***************************************************************************)
\* v.split('.'): the pieces between the separators, empty pieces included
RECURSIVE split(_, _)
split(s, sep) ==
    IF \A i \in 1..Len(s) : s[i] # sep
    THEN <<s>>
    ELSE LET i == CHOOSE k \in 1..Len(s) :
                      s[k] = sep /\ \A j \in 1..(k - 1) : s[j] # sep
         IN <<SubSeq(s, 1, i - 1)>> \o split(SubSeq(s, i + 1, Len(s)), sep)

\* the rank of a digit string of at most w digits in the order of text, in
\* which "10" comes before "9"
RECURSIVE TextRank(_, _)
TextRank(ds, w) ==
    IF w = 0 THEN 0
    ELSE IF ds = <<>> THEN 0
    ELSE (DigitValue(Head(ds)) + 1) * (11 ^ (w - 1)) + TextRank(Tail(ds), w - 1)

\* (mutant of DecimalValue) the segments are ordered as text
DecimalValue_as_text(ds) == TextRank(ds, 3)

\* value of a non-empty digit string, most significant digit first
RECURSIVE DecimalValue(_)
DecimalValue(ds) ==
    IF ds = <<>> THEN 0
    ELSE 10 * DecimalValue(SubSeq(ds, 1, Len(ds) - 1)) + DigitValue(ds[Len(ds)])

\* (mutant of int) the leading digits are read and what follows them is
\* dropped, as by C's atoi
int_leading_digits(s) ==
    LET n == IF \A i \in 1..Len(s) : IsDigit(s[i]) THEN Len(s)
             ELSE (CHOOSE i \in 1..Len(s) :
                       ~IsDigit(s[i]) /\ \A j \in 1..(i - 1) : IsDigit(s[j])) - 1
    IN IF n = 0 THEN Raise("ValueError", "invalid literal for int()")
       ELSE Return(DecimalValue(SubSeq(s, 1, n)))

\* int(s) of a str: an optional sign and then one or more digits; anything
\* else raises ValueError.  (The inputs hold no blank and no underscore.)
int(s) ==
    LET signed == s # <<>> /\ Head(s) \in {"+", "-"}
        body == IF signed THEN Tail(s) ELSE s
    IN IF body = <<>> \/ \E i \in 1..Len(body) : ~IsDigit(body[i])
       THEN Raise("ValueError", "invalid literal for int()")
       ELSE Return(IF signed /\ Head(s) = "-"
                   THEN 0 - DecimalValue(body) ELSE DecimalValue(body))

\* version_key(v) == tuple(map(int, v.split('.')))
version_key(v) ==
    LET segs == split(v, ".")
    IN IF \E i \in 1..Len(segs) : ~int(segs[i]).ok
       THEN Raise("ValueError", "invalid literal for int()")
       ELSE Return([i \in 1..Len(segs) |-> int(segs[i]).val])

\* (mutant of tuple_lt) only the leading segments are compared
tuple_lt_leading_only(a, b) == a # <<>> /\ b # <<>> /\ a[1] < b[1]

\* a < b on Python tuples of integers
tuple_lt(a, b) ==
    \/ \E i \in 1..Len(a) :
          /\ i <= Len(b)
          /\ \A j \in 1..(i - 1) : a[j] = b[j]
          /\ a[i] < b[i]
    \/ /\ Len(a) < Len(b)
       /\ \A j \in 1..Len(a) : a[j] = b[j]

\* max(versions, key=version_key) over the elements from position i on, best
\* being the first element with the greatest key so far
RECURSIVE max_from(_, _, _)
max_from(versions, i, best) ==
    IF i > Len(versions) THEN Return(best)
    ELSE IF ~version_key(versions[i]).ok THEN version_key(versions[i])
    ELSE IF tuple_lt(version_key(best).val, version_key(versions[i]).val)
         THEN max_from(versions, i + 1, versions[i])
         ELSE max_from(versions, i + 1, best)

get_latest_version(versions) ==
    IF versions = <<>>
    THEN Raise("ValueError", "max() arg is an empty sequence")
    ELSE IF ~version_key(versions[1]).ok THEN version_key(versions[1])
    ELSE max_from(versions, 2, versions[1])

(***************************************************************************)
(* The files on disk.  A directory is the set of its file names; glob      *)
(* lists them in an order the file system chooses.                         *)
(***************************************************************************)
YamlSuffix == <<".", "y", "a", "m", "l">>

\* f"{version}.yaml"
yaml_name(version) == version \o YamlSuffix

ends_with(s, suffix) ==
    /\ Len(s) >= Len(suffix)
    /\ SubSeq(s, Len(s) - Len(suffix) + 1, Len(s)) = suffix

\* Path.stem of a name matched by "*.yaml" (of a name longer than the suffix)
stem(name) == SubSeq(name, 1, Len(name) - Len(YamlSuffix))

Orders(S) ==
    {f \in [1..Cardinality(S) -> S] : \A i, j \in 1..Cardinality(S) : f[i] = f[j] => i = j}

\* dir.glob("*.yaml") mapped to stems: every order the listing can come in
glob_stems(files) ==
    LET matched == {n \in files : ends_with(n, YamlSuffix)}
    IN {[i \in 1..Len(o) |-> stem(o[i])] : o \in Orders(matched)}

ComponentNames == {"compA", "compB"}
RecipeName == "recipe1"

\* a components/<name> directory that does not exist
NoDir == [exists |-> FALSE, files |-> {}]
Dir(files) == [exists |-> TRUE, files |-> files]

\* yaml.safe_load of recipes/<stem>.yaml
RecipeFile(st, components) ==
    [Name |-> RecipeName,
     Version |-> st,
     Components |-> components,
     ParentImage |-> [Name |-> "amazon-linux-2-x86", Version |-> "x.x.x"],
     BlockDeviceMappings |-> <<[DeviceName |-> "/dev/xvda"]>>]

\* yaml.safe_load of components/<name>/<stem>.yaml; the files on disk carry
\* the version of their name
ComponentFile(name, st) ==
    [Name |-> name, Version |-> st, Platform |-> "Linux", Data |-> "phases"]

\* the file a call opened
Path(dir, name) == [dir |-> dir, name |-> name]

\* what a call of a manager method did: its result and the files it opened
Outcome(result, opened) == [result |-> result, opened |-> opened]

(***************************************************************************)
(* ImageBuilderManager: the listings and the loaders.                      *)
(***************************************************************************)
\* (mutant of get_component_versions) the files of every component are listed
get_component_versions_of_all(fs, component_name) ==
    glob_stems(UNION {fs.components[n].files : n \in DOMAIN fs.components})

get_component_versions(fs, component_name) ==
    IF ~fs.components[component_name].exists THEN {<<>>}
    ELSE glob_stems(fs.components[component_name].files)

get_recipe_versions(fs) == glob_stems(fs.recipes)

load_component_file(fs, component_name, version) ==
    IF yaml_name(version) \notin fs.components[component_name].files
    THEN Outcome(Raise("FileNotFoundError", "Component file not found"), <<>>)
    ELSE Outcome(Return(ComponentFile(component_name, version)),
                 <<Path(component_name, yaml_name(version))>>)

\* (mutant of load_component) the listing is not checked for being empty
load_component_unchecked(fs, component_name, version) ==
    IF version = SentinelXXX
    THEN {IF ~get_latest_version(available_versions).ok
          THEN Outcome(get_latest_version(available_versions), <<>>)
          ELSE load_component_file(fs, component_name,
                                   get_latest_version(available_versions).val)
          : available_versions \in get_component_versions(fs, component_name)}
    ELSE {load_component_file(fs, component_name, version)}

load_component(fs, component_name, version) ==
    IF version = SentinelXXX
    THEN {IF available_versions = <<>>
          THEN Outcome(Raise("ValueError", "Component not found"), <<>>)
          ELSE IF ~get_latest_version(available_versions).ok
               THEN Outcome(get_latest_version(available_versions), <<>>)
               ELSE load_component_file(fs, component_name,
                                        get_latest_version(available_versions).val)
          : available_versions \in get_component_versions(fs, component_name)}
    ELSE {load_component_file(fs, component_name, version)}

load_recipe_file(fs, version) ==
    IF yaml_name(version) \notin fs.recipes
    THEN Outcome(Raise("FileNotFoundError", "Recipe file not found"), <<>>)
    ELSE Outcome(Return(RecipeFile(version, fs.recipe_components)),
                 <<Path("recipes", yaml_name(version))>>)

\* (mutant of load_recipe) the first version listed is taken for the latest
load_recipe_first_listed(fs, version) ==
    IF version = SentinelLatest
    THEN {IF available_versions = <<>>
          THEN Outcome(Raise("ValueError", "No recipe files found"), <<>>)
          ELSE load_recipe_file(fs, available_versions[1])
          : available_versions \in get_recipe_versions(fs)}
    ELSE {load_recipe_file(fs, version)}

load_recipe(fs, version) ==
    IF version = SentinelLatest
    THEN {IF available_versions = <<>>
          THEN Outcome(Raise("ValueError", "No recipe files found"), <<>>)
          ELSE IF ~get_latest_version(available_versions).ok
               THEN Outcome(get_latest_version(available_versions), <<>>)
               ELSE load_recipe_file(fs, get_latest_version(available_versions).val)
          : available_versions \in get_recipe_versions(fs)}
    ELSE {load_recipe_file(fs, version)}

(***************************************************************************)
(* Python dicts: a recipe's component_info, and the insertion-ordered      *)
(* dicts components_data and self.components, kept as lists of items.      *)
(***************************************************************************)
\* d.get(key, default) of a dict kept as a function
get(d, key, default) == IF key \in DOMAIN d THEN d[key] ELSE default

\* one item of a component_config: a component name and its component_info
Item(component_name, component_info) ==
    [name |-> component_name, info |-> component_info]

\* key in d
has_key(d, key) == \E i \in 1..Len(d) : d[i].key = key

\* d[key]
lookup(d, key) == d[CHOOSE i \in 1..Len(d) : d[i].key = key].value

\* d[key] = value: a key already there keeps its place
set_item(d, key, value) ==
    IF has_key(d, key)
    THEN [i \in 1..Len(d) |->
             IF d[i].key = key THEN [key |-> key, value |-> value] ELSE d[i]]
    ELSE Append(d, [key |-> key, value |-> value])

(***************************************************************************)
(* ImageBuilderManager.resolve_recipe_components                           *)
(***************************************************************************)
\* the items of the component_configs, in the order the two loops visit them
RECURSIVE items_of(_)
items_of(components) ==
    IF components = <<>> THEN <<>>
    ELSE Head(components) \o items_of(Tail(components))

\* (mutant of resolve_version) the latest version is taken whatever version
\* the item names
resolve_version_always_latest(fs, item) ==
    {IF available_versions # <<>>
     THEN get_latest_version(available_versions)
     ELSE Return(get(item.info, "Version", SentinelXXX))
     : available_versions \in get_component_versions(fs, item.name)}

\* (mutant of resolve_version) an empty listing raises, as in load_component
resolve_version_raising(fs, item) ==
    LET component_version == get(item.info, "Version", SentinelXXX)
    IN IF component_version = SentinelXXX
       THEN {IF available_versions # <<>>
             THEN get_latest_version(available_versions)
             ELSE Raise("ValueError", "Component not found")
             : available_versions \in get_component_versions(fs, item.name)}
       ELSE {Return(component_version)}

\* the version one item resolves to: every result the listing order allows
resolve_version(fs, item) ==
    LET component_version == get(item.info, "Version", SentinelXXX)
    IN IF component_version = SentinelXXX
       THEN {IF available_versions # <<>>
             THEN get_latest_version(available_versions)
             ELSE Return(component_version)
             : available_versions \in get_component_versions(fs, item.name)}
       ELSE {Return(component_version)}

\* resolved_components after the loops ran over items, or the exception that
\* ended them
RECURSIVE resolve_items(_, _)
resolve_items(fs, items) ==
    IF items = <<>> THEN {Return(<<>>)}
    ELSE {IF ~v.ok THEN v
          ELSE IF ~rest.ok THEN rest
          ELSE Return(<<<<Item(Head(items).name, [Version |-> v.val])>>>> \o rest.val)
          : v \in resolve_version(fs, Head(items)),
            rest \in resolve_items(fs, Tail(items))}

resolve_recipe_components(fs, recipe) ==
    {IF ~r.ok THEN r ELSE Return([recipe EXCEPT !.Components = r.val])
     : r \in resolve_items(fs, items_of(recipe.Components))}

(***************************************************************************)
(* ImageBuilderStack: the lookups of what the service already holds.       *)
(***************************************************************************)
\* Python's None, which is as false as the empty str
None == <<>>

\* a version the service may hold beside the one asked for
OtherVersion == <<"0", ".", "0", ".", "1">>

\* one entry of a componentList or an imageRecipeList
Summary(type, name, version) ==
    [name |-> name, version |-> version, arn |-> <<"arn", type, name, version>>]

\* what list_components may answer: an error or one list of summaries
ComponentResponses(name, version) ==
    {Raise("ClientError", "list_components"),
     Return(<<Summary("component", name, OtherVersion)>>),
     Return(<<Summary("component", name, OtherVersion),
              Summary("component", name, version)>>)}

\* what the list_image_recipes paginator may yield: pages, of which any may
\* be an error
RecipeResponses(name, version) ==
    {<<Raise("ClientError", "list_image_recipes")>>,
     <<Return(<<Summary("image-recipe", name, OtherVersion)>>)>>,
     <<Return(<<Summary("image-recipe", name, OtherVersion)>>),
       Return(<<Summary("image-recipe", name, version)>>)>>,
     <<Return(<<Summary("image-recipe", name, OtherVersion)>>),
       Raise("ClientError", "list_image_recipes")>>}

\* (mutant of first_match) the version of a summary is not compared
RECURSIVE first_match_by_name(_, _, _)
first_match_by_name(summaries, name, version) ==
    IF summaries = <<>> THEN None
    ELSE IF Head(summaries).name = name
         THEN Head(summaries).arn
         ELSE first_match_by_name(Tail(summaries), name, version)

\* the arn of the first summary of the list with that name and version
RECURSIVE first_match(_, _, _)
first_match(summaries, name, version) ==
    IF summaries = <<>> THEN None
    ELSE IF Head(summaries).name = name /\ Head(summaries).version = version
         THEN Head(summaries).arn
         ELSE first_match(Tail(summaries), name, version)

get_existing_component_arn(response, name, version) ==
    IF ~response.ok THEN None
    ELSE first_match(response.val, name, version)

RECURSIVE get_existing_recipe_arn(_, _, _)
get_existing_recipe_arn(pages, name, version) ==
    IF pages = <<>> THEN None
    ELSE IF ~Head(pages).ok THEN None
    ELSE IF first_match(Head(pages).val, name, version) # None
         THEN first_match(Head(pages).val, name, version)
         ELSE get_existing_recipe_arn(Tail(pages), name, version)

\* ExistingImageBuilderComponent / ExistingImageBuilderRecipe
Existing(arn) == [existing |-> TRUE, attr_arn |-> arn]

\* a resource declared in the stack; its attr_arn is a token of its id
Declared(id) == [existing |-> FALSE, attr_arn |-> <<"ref", id>>]

\* component_refs of _create_recipe
RECURSIVE component_refs(_, _)
component_refs(items, components) ==
    IF items = <<>> THEN <<>>
    ELSE IF has_key(components, Head(items).name)
         THEN <<lookup(components, Head(items).name).attr_arn>>
                  \o component_refs(Tail(items), components)
         ELSE component_refs(Tail(items), components)

(***************************************************************************)
(* State.                                                                  *)
(***************************************************************************)
VARIABLES
    versions,         \* SpecLatest: the list handed to get_latest_version
    latest,           \* SpecLatest: what the call gave
    fs,               \* the files under base_path
    environ,          \* os.environ
    pc,               \* where the run is
    recipe_data,      \* main: the recipe as loaded
    resolved_recipe,  \* main: the recipe after resolve_recipe_components
    components_data,  \* main: component name -> loaded component
    idx,              \* position of the loop under way
    opened,           \* the files read so far, in order
    lookups,          \* the calls made to the Image Builder service, in order
    declared,         \* the resources declared in the stack, in order
    components,       \* ImageBuilderStack.components
    recipe,           \* ImageBuilderStack.recipe
    exit_status,      \* the exit status of the process
    stderr            \* the error message printed

run == <<recipe_data, resolved_recipe, components_data, idx, opened, lookups,
         declared, components, recipe, exit_status, stderr>>

vars == <<versions, latest, fs, environ, pc, run>>

\* the run before its first step
Fresh ==
    /\ recipe_data = None
    /\ resolved_recipe = None
    /\ components_data = <<>>
    /\ idx = 1
    /\ opened = <<>>
    /\ lookups = <<>>
    /\ declared = <<>>
    /\ components = <<>>
    /\ recipe = None
    /\ exit_status = None
    /\ stderr = None

RECURSIVE ListsUpTo(_, _)
ListsUpTo(S, n) ==
    IF n = 0 THEN {<<>>}
    ELSE LET shorter == ListsUpTo(S, n - 1)
         IN shorter \cup {Append(l, x) : l \in shorter, x \in S}

(***************************************************************************)
(* SpecLatest: get_latest_version on its own.                              *)
(***************************************************************************)
InitLatest ==
    /\ versions \in ListsUpTo(VersionPool, MaxVersions)
    /\ latest = None
    /\ fs = [recipes |-> {}, components |-> [n \in ComponentNames |-> NoDir],
             recipe_components |-> <<>>]
    /\ environ = <<>>
    /\ pc = "get_latest_version"
    /\ Fresh

CallGetLatestVersion ==
    /\ pc = "get_latest_version"
    /\ latest' = get_latest_version(versions)
    /\ pc' = "returned"
    /\ UNCHANGED <<versions, fs, environ, run>>

NextLatest == CallGetLatestVersion

SpecLatest == InitLatest /\ [][NextLatest]_vars

(***************************************************************************)
(* Spec: one run of main.                                                  *)
(***************************************************************************)
\* the versions the files and the requests of a run are drawn from
RunVersions == {V_1_9_9, V_1_10_0, V_1_0_0_beta}

Directories == {S \in SUBSET {yaml_name(v) : v \in RunVersions} : Cardinality(S) <= MaxFiles}

\* a component_config of a recipe file: one component name and its info,
\* which may leave the Version out or carry a field beside it
ComponentConfigs ==
    {<<Item(n, info)>> :
        n \in ComponentNames,
        info \in {<<>>, [Version |-> SentinelXXX], [Version |-> V_1_9_9],
                  [Version |-> SentinelXXX, Parameters |-> "params"]}}

Init ==
    /\ versions = <<>>
    /\ latest = None
    /\ fs \in [recipes : Directories,
               components : [ComponentNames -> {NoDir} \cup {Dir(S) : S \in Directories}],
               recipe_components : ListsUpTo(ComponentConfigs, MaxRefs)]
    /\ environ \in {<<>>} \cup {[RECIPE_VERSION |-> v] : v \in {V_1_9_9, V_1_0_0_beta}}
    /\ pc = "load_recipe"
    /\ Fresh

\* (mutant of Fail) the error is printed and the process exits with status 0
Fail_exit_zero(e) ==
    /\ pc' = "exit"
    /\ exit_status' = 0
    /\ stderr' = <<"Error", e.msg>>

\* except Exception as e: print(f"Error: {e}", file=sys.stderr); sys.exit(1)
Fail(e) ==
    /\ pc' = "exit"
    /\ exit_status' = 1
    /\ stderr' = <<"Error", e.msg>>

\* recipe_data = manager.load_recipe(recipe_version)
LoadRecipe ==
    /\ pc = "load_recipe"
    /\ \E o \in load_recipe(fs, get(environ, "RECIPE_VERSION", SentinelLatest)) :
          /\ opened' = opened \o o.opened
          /\ IF o.result.ok
             THEN /\ recipe_data' = o.result.val
                  /\ pc' = "resolve"
                  /\ UNCHANGED <<exit_status, stderr>>
             ELSE /\ Fail(o.result)
                  /\ UNCHANGED recipe_data
    /\ UNCHANGED <<versions, latest, fs, environ, resolved_recipe, components_data,
                   idx, lookups, declared, components, recipe>>

\* resolved_recipe = manager.resolve_recipe_components(recipe_data)
ResolveRecipeComponents ==
    /\ pc = "resolve"
    /\ \E r \in resolve_recipe_components(fs, recipe_data) :
          IF r.ok
          THEN /\ resolved_recipe' = r.val
               /\ pc' = "load_components"
               /\ idx' = 1
               /\ UNCHANGED <<exit_status, stderr>>
          ELSE /\ Fail(r)
               /\ UNCHANGED <<resolved_recipe, idx>>
    /\ UNCHANGED <<versions, latest, fs, environ, recipe_data, components_data,
                   opened, lookups, declared, components, recipe>>

\* one turn of the loop over resolved_recipe['Components']
LoadComponent ==
    /\ pc = "load_components"
    /\ idx <= Len(items_of(resolved_recipe.Components))
    /\ LET item == items_of(resolved_recipe.Components)[idx]
       IN \E o \in load_component(fs, item.name, item.info.Version) :
             /\ opened' = opened \o o.opened
             /\ IF o.result.ok
                THEN /\ components_data' = set_item(components_data, item.name, o.result.val)
                     /\ idx' = idx + 1
                     /\ UNCHANGED <<pc, exit_status, stderr>>
                ELSE /\ Fail(o.result)
                     /\ UNCHANGED <<components_data, idx>>
    /\ UNCHANGED <<versions, latest, fs, environ, recipe_data, resolved_recipe,
                   lookups, declared, components, recipe>>

\* ImageBuilderStack.__init__ up to the instance profile
StackInit ==
    /\ pc = "load_components"
    /\ idx > Len(items_of(resolved_recipe.Components))
    /\ lookups' = lookups \o
          <<[api |-> "get_component", arn |-> "component/component1/1.0.0"],
            [api |-> "get_component", arn |-> "component/component2/1.0.0"],
            [api |-> "get_image_recipe", arn |-> "image-recipe/image-builder-test/1.0.1"]>>
    /\ declared' = declared \o
          <<[type |-> "Role", id |-> "ImageBuilderRole"],
            [type |-> "CfnInstanceProfile", id |-> "ImageBuilderInstanceProfile"]>>
    /\ pc' = "create_components"
    /\ idx' = 1
    /\ UNCHANGED <<versions, latest, fs, environ, recipe_data, resolved_recipe,
                   components_data, opened, components, recipe, exit_status, stderr>>

\* one turn of the loop of _create_components
CreateComponent ==
    /\ pc = "create_components"
    /\ idx <= Len(components_data)
    /\ LET component_name == components_data[idx].key
           component_data == components_data[idx].value
           version == component_data.Version
       IN \E response \in ComponentResponses(component_name, version) :
             LET existing_arn == get_existing_component_arn(response, component_name, version)
             IN /\ lookups' = Append(lookups,
                       [api |-> "list_components", name |-> component_name,
                        version |-> version, response |-> response])
                /\ IF existing_arn # None
                   THEN /\ components' = set_item(components, component_name,
                                                  Existing(existing_arn))
                        /\ UNCHANGED declared
                   ELSE /\ declared' = Append(declared,
                              [type |-> "CfnComponent",
                               id |-> <<"Component", component_name>>,
                               name |-> component_data.Name,
                               platform |-> component_data.Platform,
                               version |-> component_data.Version,
                               data |-> component_data.Data])
                        /\ components' = set_item(components, component_name,
                              Declared(<<"Component", component_name>>))
    /\ idx' = idx + 1
    /\ UNCHANGED <<versions, latest, fs, environ, pc, recipe_data, resolved_recipe,
                   components_data, opened, recipe, exit_status, stderr>>

\* the rest of __init__: the recipe, then the infrastructure configuration,
\* whose VPC lookup raises when the environment names no account, the
\* distribution configuration, the pipeline and the outputs
CreateRecipeAndPipeline ==
    /\ pc = "create_components"
    /\ idx > Len(components_data)
    /\ LET recipe_name == resolved_recipe.Name
           recipe_version == resolved_recipe.Version
       IN \E pages \in RecipeResponses(recipe_name, recipe_version), account_known \in BOOLEAN :
             LET existing_arn == get_existing_recipe_arn(pages, recipe_name, recipe_version)
                 new_recipe ==
                     IF existing_arn # None THEN <<>>
                     ELSE <<[type |-> "CfnImageRecipe",
                             id |-> "ImageRecipe",
                             name |-> resolved_recipe.Name,
                             version |-> resolved_recipe.Version,
                             parent_image |-> resolved_recipe.ParentImage,
                             components |->
                                 component_refs(items_of(resolved_recipe.Components),
                                                components),
                             block_device_mappings |->
                                 [m \in 1..Len(resolved_recipe.BlockDeviceMappings) |->
                                     [device_name |->
                                          resolved_recipe.BlockDeviceMappings[m].DeviceName,
                                      delete_on_termination |-> TRUE,
                                      volume_type |-> "gp3"]]]>>
             IN /\ lookups' = Append(lookups,
                       [api |-> "list_image_recipes", name |-> recipe_name,
                        version |-> recipe_version, response |-> pages])
                /\ recipe' = IF existing_arn # None THEN Existing(existing_arn)
                             ELSE Declared("ImageRecipe")
                /\ IF account_known
                   THEN /\ declared' = declared \o new_recipe \o
                              <<[type |-> "CfnInfrastructureConfiguration",
                                 id |-> "InfrastructureConfig"],
                                [type |-> "CfnDistributionConfiguration",
                                 id |-> "DistributionConfig"],
                                [type |-> "CfnImagePipeline", id |-> "ImagePipeline",
                                 image_recipe_arn |-> recipe'.attr_arn],
                                [type |-> "CfnOutput", id |-> "ImagePipelineArn"],
                                [type |-> "CfnOutput", id |-> "ImageRecipeArn",
                                 value |-> recipe'.attr_arn]>>
                        /\ pc' = "synth"
                        /\ UNCHANGED <<exit_status, stderr>>
                   ELSE /\ declared' = declared \o new_recipe
                        /\ Fail(Raise("Error", "Cannot retrieve value from context provider"))
    /\ UNCHANGED <<versions, latest, fs, environ, recipe_data, resolved_recipe,
                   components_data, idx, opened, components>>

\* app.synth() and the end of main
Synth ==
    /\ pc = "synth"
    /\ \E synthesized \in BOOLEAN :
          IF synthesized
          THEN /\ pc' = "exit"
               /\ exit_status' = 0
               /\ UNCHANGED stderr
          ELSE Fail(Raise("Error", "synthesis failed"))
    /\ UNCHANGED <<versions, latest, fs, environ, recipe_data, resolved_recipe,
                   components_data, idx, opened, lookups, declared, components, recipe>>

Next ==
    \/ LoadRecipe
    \/ ResolveRecipeComponents
    \/ LoadComponent
    \/ StackInit
    \/ CreateComponent
    \/ CreateRecipeAndPipeline
    \/ Synth

Spec == Init /\ [][Next]_vars

(***************************************************************************)
(* What the claims speak of, written without the operators of the code.    *)
(***************************************************************************)
Range(seq) == {seq[i] : i \in 1..Len(seq)}

Least(S) == CHOOSE x \in S : \A y \in S : x <= y

\* a decimal numeral: one or more of the digits 0 to 9
IsNumeral(seg) ==
    /\ seg # <<>>
    /\ \A i \in 1..Len(seg) : seg[i] \in {"0", "1", "2", "3", "4", "5", "6", "7", "8", "9"}

\* the pieces of v between its dots
Segments(v) ==
    LET dots == {p \in 1..Len(v) : v[p] = "."}
        cuts == {0} \cup dots \cup {Len(v) + 1}
        Cut(k) == CHOOSE p \in cuts : Cardinality({q \in cuts : q < p}) = k
    IN [k \in 1..(Cardinality(dots) + 1) |-> SubSeq(v, Cut(k - 1) + 1, Cut(k) - 1)]

\* a valid dotted version string: numerals separated by dots
IsVersion(v) ==
    LET segs == Segments(v)
    IN \A k \in 1..Len(segs) : IsNumeral(segs[k])

\* the number a numeral writes: Horner's rule from the leading digit
RECURSIVE Horner(_, _)
Horner(seg, acc) ==
    IF seg = <<>> THEN acc
    ELSE Horner(Tail(seg),
                10 * acc + (CHOOSE d \in 0..9 :
                                <<"0", "1", "2", "3", "4", "5", "6", "7", "8", "9">>[d + 1]
                                    = Head(seg)))

\* the tuple of integer segments of a valid version string
IntegerTuple(v) ==
    LET segs == Segments(v)
    IN [k \in 1..Len(segs) |-> Horner(segs[k], 0)]

\* a <= b in the lexicographic order of integer tuples
LexLeq(a, b) ==
    LET differ == {i \in 1..Len(a) : i <= Len(b) /\ a[i] # b[i]}
    IN IF differ = {} THEN Len(a) <= Len(b)
       ELSE a[Least(differ)] < b[Least(differ)]

\* every segment is a numeral with no leading zero
IsCanonical(v) ==
    /\ IsVersion(v)
    /\ LET segs == Segments(v)
       IN \A k \in 1..Len(segs) : Len(segs[k]) > 1 => Head(segs[k]) # "0"

\* the lists that hold the elements of l in another order
Reorderings(l) ==
    {[i \in 1..Len(l) |-> l[p[i]]] : p \in Orders(1..Len(l))}

(***************************************************************************)
(* C1: over a non-empty list of valid dotted version strings,              *)
(* get_latest_version returns an element of the list whose tuple of        *)
(* integer segments is greater than or equal to the tuple of every         *)
(* element, the segments compared as integers: "1.10.0" over               *)
(* {"1.2.0", "1.10.0", "1.9.9"}, and "2.0.0" beats "1.99.0".               *)
(***************************************************************************)
C1_LatestIsIntegerMaximum ==
    (/\ pc = "returned"
     /\ versions # <<>>
     /\ \A i \in 1..Len(versions) : IsVersion(versions[i]))
    => /\ latest.ok
       /\ latest.val \in Range(versions)
       /\ \A i \in 1..Len(versions) :
             LexLeq(IntegerTuple(versions[i]), IntegerTuple(latest.val))
       /\ Range(versions) = {V_1_2_0, V_1_10_0, V_1_9_9} => latest.val = V_1_10_0
       /\ Range(versions) = {V_2_0_0, V_1_99_0} => latest.val = V_2_0_0

C1_Witness ==
    /\ pc = "returned"
    /\ versions = <<V_1_2_0, V_1_10_0, V_1_9_9>>
    /\ latest = Return(V_1_10_0)

(***************************************************************************)
(* C9 as claimed: two version strings of the list have equal tuples of     *)
(* integer segments only if they are the same string, so that the string   *)
(* get_latest_version selects does not depend on the order of the list.    *)
(***************************************************************************)
C9_TiesImpossible ==
    (pc = "returned" /\ latest.ok)
    => /\ \A i, j \in 1..Len(versions) :
             version_key(versions[i]).val = version_key(versions[j]).val
                 => versions[i] = versions[j]
       /\ \A l \in Reorderings(versions) : get_latest_version(l) = latest

(***************************************************************************)
(* C9 as amended: int reads "01" and "1" as the same integer, so ties      *)
(* happen between strings that spell a segment differently, and then the   *)
(* first greatest string of the list is selected.  Two strings whose       *)
(* segments are numerals without leading zeros have equal tuples only if   *)
(* they are the same string; the tuple of the selected string does not     *)
(* depend on the order of the list, and neither does the string when every *)
(* string of the list is such.                                             *)
(***************************************************************************)
C9_TiesOnlyBetweenSpellings ==
    (pc = "returned" /\ latest.ok)
    => /\ \A i, j \in 1..Len(versions) :
             (/\ IsCanonical(versions[i])
              /\ IsCanonical(versions[j])
              /\ version_key(versions[i]).val = version_key(versions[j]).val)
                 => versions[i] = versions[j]
       /\ \A l \in Reorderings(versions) :
             /\ get_latest_version(l).ok
             /\ IntegerTuple(get_latest_version(l).val) = IntegerTuple(latest.val)
             /\ (\A i \in 1..Len(versions) : IsCanonical(versions[i]))
                    => get_latest_version(l) = latest

\* a tie: the first of two spellings of 1.1.0 was selected
C9_Witness ==
    /\ pc = "returned"
    /\ versions = <<V_1_01_0, V_1_1_0>>
    /\ latest = Return(V_1_01_0)
    /\ get_latest_version(<<V_1_1_0, V_1_01_0>>) = Return(V_1_1_0)

(***************************************************************************)
(* The run of main, as the claims speak of it.                             *)
(***************************************************************************)
\* the version main asks load_recipe for
Requested == IF "RECIPE_VERSION" \in DOMAIN environ
             THEN environ.RECIPE_VERSION ELSE SentinelLatest

\* the stems of the yaml files of a directory
Stems(files) ==
    {SubSeq(n, 1, Len(n) - 5) : n \in {m \in files : Len(m) >= 5 /\ SubSeq(m, Len(m) - 4, Len(m)) = <<".", "y", "a", "m", "l">>}}

RecipeStems == Stems(fs.recipes)
ComponentStems(name) == Stems(fs.components[name].files)

\* the greatest stems of a set of valid version strings
Greatest(stems) ==
    LET tuple == [v \in stems |-> IntegerTuple(v)]
    IN {v \in stems : \A w \in stems : LexLeq(tuple[w], tuple[v])}

\* load_recipe was called and has returned or raised
RecipeCallDone == pc \in {"resolve", "load_components", "create_components",
                          "synth", "exit"}
RecipeLoaded == RecipeCallDone /\ recipe_data # None

\* resolve_recipe_components was called and has returned or raised
ResolveCallDone == RecipeLoaded /\ pc # "resolve"
Resolved == ResolveCallDone /\ resolved_recipe # None

\* the component references of the loaded recipe and of the resolved one
Refs == IF recipe_data = None THEN <<>>
        ELSE [k \in 1..Len(recipe_data.Components) |-> recipe_data.Components[k][1]]
ResolvedRefs ==
    IF resolved_recipe = None THEN <<>>
    ELSE [k \in 1..Len(resolved_recipe.Components) |-> resolved_recipe.Components[k][1]]

\* the version a reference asks for, the sentinel when it names none
Asked(ref) == IF "Version" \in DOMAIN ref.info THEN ref.info.Version ELSE SentinelXXX

IntParseError == <<"Error", "invalid literal for int()">>

\* the run ended in an error raised by load_recipe / by resolve_recipe_components
FailedInLoadRecipe == pc = "exit" /\ exit_status = 1 /\ recipe_data = None
FailedInResolve ==
    pc = "exit" /\ exit_status = 1 /\ recipe_data # None /\ resolved_recipe = None

(***************************************************************************)
(* C10 as claimed: whenever a version string with a segment that is no     *)
(* integer is the requested version, or is among the available versions of *)
(* the entity being resolved, the resolution fails at the integer-parse    *)
(* step and returns no version.                                            *)
(***************************************************************************)
C10_SuffixAlwaysFails ==
    LET refs == Refs
        resolved == ResolvedRefs
    IN
        /\ (RecipeCallDone /\ ((~IsVersion(Requested) /\ Requested # SentinelLatest)
                               \/ \E v \in RecipeStems : ~IsVersion(v)))
              => FailedInLoadRecipe /\ stderr = IntParseError
        /\ \A k \in 1..Len(refs) :
              (ResolveCallDone /\ ((~IsVersion(Asked(refs[k])) /\ Asked(refs[k]) # SentinelXXX)
                                   \/ \E v \in ComponentStems(refs[k].name) : ~IsVersion(v)))
                 => FailedInResolve /\ stderr = IntParseError

(***************************************************************************)
(* C10 as amended: whenever the latest version is requested ("latest" for  *)
(* the recipe, "x.x.x" or no Version for a component reference) and a      *)
(* string with a segment that is no integer is among the available         *)
(* versions of that entity, the resolution fails at the integer-parse step *)
(* and reads no file.  An explicitly requested version is never parsed: a  *)
(* pre-release string that is requested explicitly is used unchanged.      *)
(***************************************************************************)
C10_SuffixFailsLatest ==
    LET refs == Refs
        resolved == ResolvedRefs
    IN
        /\ (RecipeCallDone /\ Requested = SentinelLatest /\ \E v \in RecipeStems : ~IsVersion(v))
              => FailedInLoadRecipe /\ stderr = IntParseError /\ opened = <<>>
        /\ \A k \in 1..Len(refs) :
              (/\ ResolveCallDone
               /\ Asked(refs[k]) = SentinelXXX
               /\ \E v \in ComponentStems(refs[k].name) : ~IsVersion(v))
                 => FailedInResolve /\ stderr = IntParseError /\ Len(opened) = 1
        /\ (RecipeCallDone /\ Requested # SentinelLatest /\ Requested \in RecipeStems)
              => RecipeLoaded /\ recipe_data.Version = Requested

\* the recipe directory holds 1.0.0-beta.yaml beside another version and the
\* latest recipe was asked for
C10_Witness ==
    /\ FailedInLoadRecipe
    /\ Requested = SentinelLatest
    /\ RecipeStems = {V_1_10_0, V_1_0_0_beta}
    /\ stderr = IntParseError

(***************************************************************************)
(* C2: a requested version that is not the latest sentinel is returned     *)
(* unchanged, whatever versions are available (also when it is not among   *)
(* them, or none is), and resolving is idempotent: resolving the resolved  *)
(* recipe again, with the same files, gives the same component versions.   *)
(***************************************************************************)
C2_ExplicitUnchangedAndIdempotent ==
    LET refs == Refs
        resolved == ResolvedRefs
    IN
        Resolved
        => /\ Len(resolved) = Len(refs)
           /\ \A k \in 1..Len(refs) :
                 Asked(refs[k]) # SentinelXXX
                     => /\ resolved[k].name = refs[k].name
                        /\ resolved[k].info.Version = Asked(refs[k])
           /\ resolve_recipe_components(fs, resolved_recipe) = {Return(resolved_recipe)}

\* 1.9.9 is asked of a component that has other versions only, beside a
\* reference that was resolved to the latest; both stay as they are
C2_Witness ==
    LET refs == Refs
        resolved == ResolvedRefs
    IN
        /\ Resolved
        /\ Len(refs) = 2
        /\ Asked(refs[1]) = V_1_9_9
        /\ ComponentStems(refs[1].name) = {V_1_10_0}
        /\ resolved[1].info.Version = V_1_9_9
        /\ Asked(refs[2]) = SentinelXXX
        /\ resolved[2].info.Version = V_1_10_0

(***************************************************************************)
(* C3: load_recipe called with an explicit version V reads the recipe file *)
(* whose stem is V and no other file; called with "latest" it reads the    *)
(* recipe file whose stem is the greatest, as tuples of integers, of the   *)
(* stems of the recipe files present.                                      *)
(***************************************************************************)
C3_LoadRecipeReadsTheFile ==
    /\ (RecipeCallDone /\ ~RecipeLoaded) => opened = <<>>
    /\ RecipeLoaded
          => /\ opened[1].dir = "recipes"
             /\ opened[1].name \in fs.recipes
             /\ \A k \in 2..Len(opened) : opened[k].dir # "recipes"
             /\ recipe_data.Version \in RecipeStems
             /\ opened[1].name = recipe_data.Version \o <<".", "y", "a", "m", "l">>
             /\ Requested # SentinelLatest => recipe_data.Version = Requested
             /\ Requested = SentinelLatest
                   => /\ \A v \in RecipeStems : IsVersion(v)
                      /\ recipe_data.Version \in Greatest(RecipeStems)

\* the latest of 1.9.9 and 1.10.0 was asked for and 1.10.0.yaml was read
C3_Witness ==
    /\ RecipeLoaded
    /\ Requested = SentinelLatest
    /\ RecipeStems = {V_1_9_9, V_1_10_0}
    /\ opened[1] = [dir |-> "recipes",
                    name |-> <<"1", ".", "1", "0", ".", "0", ".", "y", "a", "m", "l">>]
    /\ recipe_data.Version = V_1_10_0

(***************************************************************************)
(* C4: a component reference whose version is "x.x.x" and whose component  *)
(* has a version file is resolved to the greatest version among the files  *)
(* of that component, whatever the files of the other components are.      *)
(***************************************************************************)
C4_SentinelResolvesToOwnLatest ==
    LET refs == Refs
        resolved == ResolvedRefs
    IN
        Resolved
        => \A k \in 1..Len(refs) :
              (Asked(refs[k]) = SentinelXXX /\ ComponentStems(refs[k].name) # {})
                 => /\ resolved[k].name = refs[k].name
                    /\ \A v \in ComponentStems(refs[k].name) : IsVersion(v)
                    /\ resolved[k].info.Version
                           \in Greatest(ComponentStems(refs[k].name))

\* compA has 1.9.9 and 1.10.0, compB has 1.9.9 only
C4_Witness ==
    LET refs == Refs
        resolved == ResolvedRefs
    IN
        /\ Resolved
        /\ Len(refs) = 2
        /\ refs[1] = [name |-> "compA", info |-> [Version |-> SentinelXXX]]
        /\ refs[2] = [name |-> "compB", info |-> [Version |-> SentinelXXX]]
        /\ ComponentStems("compA") = {V_1_9_9, V_1_10_0}
        /\ ComponentStems("compB") = {V_1_9_9}
        /\ resolved[1].info.Version = V_1_10_0
        /\ resolved[2].info.Version = V_1_9_9

(***************************************************************************)
(* The loop of main over the resolved references.                          *)
(***************************************************************************)
\* the stack was never reached: nothing was looked up or declared
NothingRemote == lookups = <<>> /\ declared = <<>> /\ components = <<>> /\ recipe = None

\* the run ended in an error raised by load_component for reference idx
FailedInLoadComponent ==
    pc = "exit" /\ exit_status = 1 /\ resolved_recipe # None /\ NothingRemote

\* the number of references load_component has returned for
Loaded ==
    IF ~Resolved THEN 0
    ELSE IF pc = "load_components" \/ FailedInLoadComponent THEN idx - 1
    ELSE Len(ResolvedRefs)

NoVersionFile(name) == ComponentStems(name) = {}

(***************************************************************************)
(* C5: asking for the latest version where no version is available fails   *)
(* with a not-found error and reads no file: load_recipe("latest") when    *)
(* there is no recipe file, load_component(name, "x.x.x") when the         *)
(* component has no version file, its directory missing or empty.          *)
(***************************************************************************)
C5_LatestOfNothingIsNotFound ==
    LET refs == Refs
        resolved == ResolvedRefs
    IN
        /\ (RecipeCallDone /\ Requested = SentinelLatest /\ RecipeStems = {})
              => /\ FailedInLoadRecipe
                 /\ stderr = <<"Error", "No recipe files found">>
                 /\ opened = <<>>
        /\ \A k \in 1..Len(resolved) :
              (resolved[k].info.Version = SentinelXXX /\ NoVersionFile(resolved[k].name))
                 => /\ Loaded < k
                    /\ (pc = "exit" /\ Loaded = k - 1)
                           => /\ FailedInLoadComponent
                              /\ stderr = <<"Error", "Component not found">>
                              /\ Len(opened) = k

\* the first component was loaded, the directory of the second is empty and
\* the run ended there
C5_Witness ==
    LET refs == Refs
        resolved == ResolvedRefs
    IN
        /\ FailedInLoadComponent
        /\ Len(resolved) = 2
        /\ idx = 2
        /\ resolved[2].info.Version = SentinelXXX
        /\ fs.components[resolved[2].name] = [exists |-> TRUE, files |-> {}]
        /\ stderr = <<"Error", "Component not found">>

(***************************************************************************)
(* C6 as claimed: resolve_recipe_components fails with a not-found error   *)
(* when a reference asks for "x.x.x" and its component has no version, and *)
(* never returns a recipe in which a reference still carries "x.x.x".      *)
(***************************************************************************)
C6_ResolveFailsOnNoVersion ==
    LET refs == Refs
        resolved == ResolvedRefs
    IN
        /\ \A k \in 1..Len(refs) :
              (ResolveCallDone /\ Asked(refs[k]) = SentinelXXX /\ NoVersionFile(refs[k].name))
                 => FailedInResolve
        /\ \A k \in 1..Len(resolved) : resolved[k].info.Version # SentinelXXX

(***************************************************************************)
(* C6 as amended: resolve_recipe_components does not fail when a reference *)
(* asks for "x.x.x" and its component has no version: the only error it    *)
(* raises is that of the integer parse, and the recipe it returns carries  *)
(* "x.x.x" for exactly those references.  The not-found error is raised    *)
(* afterwards by load_component, when main loads that reference, so that   *)
(* no stack is ever built from a recipe that still carries "x.x.x".        *)
(***************************************************************************)
C6_SentinelLeftForLoadComponent ==
    LET refs == Refs
        resolved == ResolvedRefs
    IN
        /\ FailedInResolve => stderr = IntParseError
        /\ Resolved
              => /\ Len(resolved) = Len(refs)
                 /\ \A k \in 1..Len(refs) :
                       resolved[k].info.Version = SentinelXXX
                           <=> (Asked(refs[k]) = SentinelXXX /\ NoVersionFile(refs[k].name))
        /\ (\E k \in 1..Len(resolved) : resolved[k].info.Version = SentinelXXX)
              => /\ NothingRemote
                 /\ pc = "exit" => /\ FailedInLoadComponent
                                   /\ stderr \in {<<"Error", "Component not found">>,
                                                  <<"Error", "Component file not found">>}

\* a recipe was returned with "x.x.x" in it and the run ended in load_component
C6_Witness ==
    LET refs == Refs
        resolved == ResolvedRefs
    IN
        /\ FailedInLoadComponent
        /\ Len(resolved) = 1
        /\ refs[1].info = [Version |-> SentinelXXX]
        /\ resolved[1].info.Version = SentinelXXX
        /\ stderr = <<"Error", "Component not found">>

(***************************************************************************)
(* The stack, as the claims speak of it.                                   *)
(***************************************************************************)
ComponentLookups == SelectSeq(lookups, LAMBDA l : l.api = "list_components")
RecipeLookups == SelectSeq(lookups, LAMBDA l : l.api = "list_image_recipes")

DeclaredOfType(type) == SelectSeq(declared, LAMBDA d : d.type = type)

\* the lookup came back with an entry of the name and the version asked for
ComponentFound(l) ==
    /\ l.response.ok
    /\ \E e \in Range(l.response.val) : e.name = l.name /\ e.version = l.version

\* a page with such an entry was received, and no error before it
RecipeFound(l) ==
    \E p \in 1..Len(l.response) :
       /\ \A q \in 1..p : l.response[q].ok
       /\ \E e \in Range(l.response[p].val) : e.name = l.name /\ e.version = l.version

\* __init__ has begun
StackReached == lookups # <<>>

\* the components _create_components has gone through
Created ==
    IF ~StackReached THEN 0
    ELSE IF pc = "create_components" THEN idx - 1
    ELSE Len(components_data)

\* _create_recipe has run
RecipeCreated == recipe # None

ArnOf(type, l) == <<"arn", type, l.name, l.version>>

\* the ARN the stack holds for the component a lookup was about
ComponentArn(l) ==
    IF ComponentFound(l) THEN ArnOf("component", l)
    ELSE <<"ref", <<"Component", l.name>>>>

(***************************************************************************)
(* C7: for every component of components_data and for the recipe, one      *)
(* lookup is made, with no retry; a resource is declared if and only if    *)
(* the lookup gave no entry of that name and version, an error counting as *)
(* no entry; when an entry was found nothing is declared and its ARN is    *)
(* used: in the ARNs of the components of a declared recipe, and as the    *)
(* image_recipe_arn of the pipeline.                                       *)
(***************************************************************************)
C7_DeclaredIffNotFound ==
    LET refs == Refs
        resolved == ResolvedRefs
    IN
        /\ Len(ComponentLookups) = Created
        /\ Len(components) = Created
        /\ \A k \in 1..Created :
              LET l == ComponentLookups[k]
                  ids == {d.id : d \in Range(DeclaredOfType("CfnComponent"))}
              IN /\ l.name = components_data[k].key
                 /\ l.version = components_data[k].value.Version
                 /\ components[k].key = l.name
                 /\ <<"Component", l.name>> \in ids <=> ~ComponentFound(l)
                 /\ components[k].value.existing <=> ComponentFound(l)
                 /\ components[k].value.attr_arn = ComponentArn(l)
        /\ Len(DeclaredOfType("CfnComponent"))
               = Cardinality({k \in 1..Created : ~ComponentFound(ComponentLookups[k])})
        /\ Len(RecipeLookups) = (IF RecipeCreated THEN 1 ELSE 0)
        /\ RecipeCreated
              => LET l == RecipeLookups[1]
                 IN /\ l.name = resolved_recipe.Name
                    /\ l.version = resolved_recipe.Version
                    /\ Len(DeclaredOfType("CfnImageRecipe")) = (IF RecipeFound(l) THEN 0 ELSE 1)
                    /\ recipe.existing <=> RecipeFound(l)
                    /\ RecipeFound(l) => recipe.attr_arn = ArnOf("image-recipe", l)
                    /\ \A d \in Range(DeclaredOfType("CfnImagePipeline")) :
                          d.image_recipe_arn
                              = (IF RecipeFound(l) THEN ArnOf("image-recipe", l)
                                 ELSE <<"ref", "ImageRecipe">>)
                    /\ \A d \in Range(DeclaredOfType("CfnImageRecipe")) :
                          /\ Len(d.components) = Len(resolved)
                          /\ \A r \in 1..Len(resolved) :
                                \E k \in 1..Created :
                                   /\ ComponentLookups[k].name = resolved[r].name
                                   /\ d.components[r] = ComponentArn(ComponentLookups[k])

\* compA was found and compB was not; the recipe was not found, was declared
\* with the ARN of the one and the token of the other, and the pipeline built
C7_Witness ==
    /\ pc = "synth"
    /\ Created = 2
    /\ ComponentFound(ComponentLookups[1])
    /\ ~ComponentLookups[2].response.ok
    /\ ~RecipeFound(RecipeLookups[1])
    /\ Len(DeclaredOfType("CfnComponent")) = 1
    /\ DeclaredOfType("CfnImageRecipe")[1].components
           = <<ArnOf("component", ComponentLookups[1]),
               <<"ref", <<"Component", ComponentLookups[2].name>>>> >>
    /\ Len(DeclaredOfType("CfnImagePipeline")) = 1

(***************************************************************************)
(* C8: a run of main ends with a non-zero exit status and an error message *)
(* whenever a failure is raised while the recipe is loaded, the components *)
(* are resolved or loaded, the stack is built or synthesized, and with     *)
(* status zero otherwise; a local not-found failure ends the run before    *)
(* anything is looked up or declared.                                      *)
(***************************************************************************)
NotFoundMessages ==
    {<<"Error", "No recipe files found">>, <<"Error", "Recipe file not found">>,
     <<"Error", "Component not found">>, <<"Error", "Component file not found">>}

\* load_recipe has to raise on these files and this request
RecipeLoadFails ==
    IF Requested = SentinelLatest
    THEN RecipeStems = {} \/ \E v \in RecipeStems : ~IsVersion(v)
    ELSE Requested \notin RecipeStems

\* load_component has to raise for this resolved reference
ComponentLoadFails(ref) == ref.info.Version \notin ComponentStems(ref.name)

C8_ExitStatus ==
    LET refs == Refs
        resolved == ResolvedRefs
    IN
        /\ pc = "exit"
              => /\ exit_status \in {0, 1}
                 /\ exit_status = 1 <=> stderr # None
                 /\ exit_status = 1 => Len(stderr) = 2 /\ stderr[1] = "Error"
                 /\ exit_status = 0
                       => /\ Resolved
                          /\ Loaded = Len(resolved)
                          /\ Created = Len(components_data)
                          /\ Len(DeclaredOfType("CfnImagePipeline")) = 1
                          /\ ~RecipeLoadFails
                          /\ \A k \in 1..Len(resolved) : ~ComponentLoadFails(resolved[k])
        /\ pc # "exit" => exit_status = None /\ stderr = None
        /\ (RecipeCallDone /\ RecipeLoadFails) => FailedInLoadRecipe
        /\ (ResolveCallDone /\ resolved_recipe = None) => FailedInResolve
        /\ \A k \in 1..Len(resolved) :
              ComponentLoadFails(resolved[k])
                 => /\ Loaded < k
                    /\ Loaded = k - 1 => (pc = "load_components" \/ FailedInLoadComponent)
        /\ stderr \in NotFoundMessages => NothingRemote

\* the second component file is missing: the run ended with status 1 and had
\* looked nothing up
C8_Witness ==
    /\ pc = "exit"
    /\ exit_status = 1
    /\ stderr = <<"Error", "Component file not found">>
    /\ Len(opened) = 2
    /\ NothingRemote

(***************************************************************************)
(* C11: resolve_recipe_components changes nothing of a recipe except the   *)
(* version of each component reference: the recipe passed in is left as    *)
(* it was loaded, and the returned recipe has the same Name, Version,      *)
(* ParentImage and BlockDeviceMappings and a Components list with as many  *)
(* entries, the same component names in the same order, and every field    *)
(* of each component entry other than its Version as it was.               *)
(***************************************************************************)
\* the fields of a component_info beside its Version
OtherFields(info) == DOMAIN info \ {"Version"}

C11_OnlyVersionsChange ==
    Resolved =>
        /\ recipe_data = RecipeFile(recipe_data.Version, fs.recipe_components)
        /\ resolved_recipe.Name = recipe_data.Name
        /\ resolved_recipe.Version = recipe_data.Version
        /\ resolved_recipe.ParentImage = recipe_data.ParentImage
        /\ resolved_recipe.BlockDeviceMappings = recipe_data.BlockDeviceMappings
        /\ Len(resolved_recipe.Components) = Len(recipe_data.Components)
        /\ \A k \in 1..Len(recipe_data.Components) :
              LET config == recipe_data.Components[k]
                  resolved_config == resolved_recipe.Components[k]
              IN /\ Len(resolved_config) = Len(config)
                 /\ \A j \in 1..Len(config) :
                       /\ resolved_config[j].name = config[j].name
                       /\ \A field \in OtherFields(config[j].info) :
                             /\ field \in DOMAIN resolved_config[j].info
                             /\ resolved_config[j].info[field] = config[j].info[field]

(***************************************************************************)
(* C12: once main has loaded the components of the resolved recipe, every  *)
(* component reference (name, resolved version) of the recipe's list is    *)
(* backed by the component data loaded for that name and that version,     *)
(* and a newly declared recipe lists one component ARN per reference, in   *)
(* the order of the recipe, each the ARN of the component of the           *)
(* reference's name and version; also when one component name occurs in    *)
(* several references with different versions.                             *)
(***************************************************************************)
\* the component an ARN held by the stack stands for: the one the service
\* holds, or the CfnComponent declared under that id
ComponentOfArn(arn) ==
    IF arn[1] = "arn" THEN [name |-> arn[3], version |-> arn[4]]
    ELSE LET d == CHOOSE c \in Range(DeclaredOfType("CfnComponent")) : c.id = arn[2]
         IN [name |-> d.name, version |-> d.version]

\* the loop of main over the references has ended
AllLoaded == Resolved /\ Loaded = Len(ResolvedRefs)

\* every reference has the data of its own name and version behind it
BackedByOwnData ==
    \A k \in 1..Len(ResolvedRefs) :
       LET ref == ResolvedRefs[k]
       IN /\ has_key(components_data, ref.name)
          /\ lookup(components_data, ref.name).Name = ref.name
          /\ lookup(components_data, ref.name).Version = ref.info.Version

\* the recipes declared in the stack: none, or the one of this run
NewRecipes == DeclaredOfType("CfnImageRecipe")

\* the declared recipe lists the component of each reference, in order
ListsOwnComponents(new_recipe) ==
    /\ Len(new_recipe.components) = Len(ResolvedRefs)
    /\ \A k \in 1..Len(ResolvedRefs) :
          ComponentOfArn(new_recipe.components[k]) =
              [name |-> ResolvedRefs[k].name, version |-> ResolvedRefs[k].info.Version]

C12_EachReferenceHasItsOwnComponent ==
    /\ AllLoaded => BackedByOwnData
    /\ \A k \in 1..Len(NewRecipes) : ListsOwnComponents(NewRecipes[k])
====
